---------------------------- MODULE Spec2Model ----------------------------
(***************************************************************************)
(* A model of crypto_routines__2010.py: the alphabet coder                 *)
(* (class CodeForAlphabet) and the Hill cipher engine (class HillCipher).  *)
(*                                                                         *)
(* Strings and lists are sequences (Python index k is TLA+ index k + 1),   *)
(* a matrix is the sequence of its rows, and a call is recorded, with its  *)
(* arguments and its outcome, in the variable of its class (coder_call,    *)
(* hill_call): a raised exception is the status of the call.               *)
(***************************************************************************)
EXTENDS Integers, Sequences, FiniteSets

VARIABLES
    coder,       \* the CodeForAlphabet object the caller holds
    coder_call,  \* the latest CodeForAlphabet call: arguments and outcome
    engine,      \* the HillCipher object the caller holds
    heap,        \* the matrix objects in memory, by object id
    held,        \* the matrix the caller got from a key accessor: its id (0: none)
                 \* and the number of entries the caller has written into it
    hill_call    \* the latest HillCipher call: arguments and outcome

vars == <<coder, coder_call, engine, heap, held, hill_call>>
coder_vars == <<coder, coder_call>>
hill_vars == <<engine, heap, held, hill_call>>

---------------------------------------------------------------------------
(* Bounds of the model *)

\* longest alphabet string drawn (the docstring's "ABCDE" is added to them)
MaxAlpha == 3
\* longest text handed to encode (the docstring's "AAABCEE" is added)
MaxText == 3
\* longest number list handed to decode
MaxNums == 2
\* largest modulus N
MaxMod == 3
\* largest entry of an integer key matrix (the docstring's matrix is added)
MaxEntry == 3
\* longest number list handed to encrypt and decrypt
MaxLen == 3
\* most entries the caller writes into one matrix an accessor returned
MaxWrites == 1

---------------------------------------------------------------------------
(* Outcomes of a call: "ok", or the exception the call raises *)

OK == "ok"
NotImplemented == "NotImplementedError: Need to add support for word length > 1."
UnknownSymbol == "ValueError: substring not found"
IndexOutOfRange == "IndexError: string index out of range"
NoModulus == "TypeError: The matrix is not defined over a finite ring, but no modulus is specified."
NotInvertible == "RuntimeError: Cannot find the inverse of the matrix"
UnboundLocal == "UnboundLocalError: local variable 'mod_matrix_inv' referenced before assignment"
BadTraceback == "TypeError: raise: arg 3 must be a traceback or None"
PaddingRequired == "RuntimeError: Additional padding is needed for the word"

---------------------------------------------------------------------------
(* Sequences *)

Min(a, b) == IF a < b THEN a ELSE b

\* the sequences over S of length at most n
SeqUpTo(S, n) == UNION {[1..k -> S] : k \in 0..n}

---------------------------------------------------------------------------
(* class CodeForAlphabet *)

\* the result of a coder call: status, and the value returned when it is "ok"
CoderRaise(e) == [status |-> e, nums |-> <<>>, text |-> <<>>]

\* CodeForAlphabet.__init__: stores both arguments, checks neither
CodeForAlphabet_init(alphabet_string, word_length) ==
    [exists |-> TRUE, codeword_length |-> word_length,
     alphabet_string |-> alphabet_string]

\* str.index counting positions from one
StrIndexOneBased(s, c) ==
    IF \E i \in 1..Len(s) : s[i] = c
      THEN CHOOSE i \in 1..Len(s) : s[i] = c /\ \A j \in 1..(i-1) : s[j] # c
      ELSE -1

\* str.index(c): the zero-based position of the first c in s, -1 standing for
\* the ValueError of a c that s does not hold
StrIndex(s, c) ==
    IF \E i \in 1..Len(s) : s[i] = c
      THEN (CHOOSE i \in 1..Len(s) : s[i] = c /\ \A j \in 1..(i-1) : s[j] # c) - 1
      ELSE -1

\* the loop of encode: num_list.append(alphabet_string.index(text_str[i]))
RECURSIVE EncodeLoop(_, _, _, _)
EncodeLoop(alphabet_string, text_str, i, num_list) ==
    IF i > Len(text_str) THEN [status |-> OK, nums |-> num_list, text |-> <<>>]
    ELSE LET k == StrIndex(alphabet_string, text_str[i])
         IN IF k < 0 THEN CoderRaise(UnknownSymbol)
            ELSE EncodeLoop(alphabet_string, text_str, i + 1, Append(num_list, k))

\* encode without its check of the word length
EncodeUnguarded(self, text_str) == EncodeLoop(self.alphabet_string, text_str, 1, <<>>)

\* CodeForAlphabet.encode
encode(self, text_str) ==
    IF self.codeword_length # 1 THEN CoderRaise(NotImplemented)
    ELSE EncodeLoop(self.alphabet_string, text_str, 1, <<>>)

\* s[k] of a Python string: a negative k counts from the end of s, and a k
\* outside -len(s) .. len(s)-1 raises IndexError (ok = FALSE)
StrGetItem(s, k) ==
    IF 0 <= k /\ k < Len(s) THEN [ok |-> TRUE, char |-> s[k + 1]]
    ELSE IF -Len(s) <= k /\ k < 0 THEN [ok |-> TRUE, char |-> s[Len(s) + k + 1]]
    ELSE [ok |-> FALSE, char |-> ""]

\* the loop of decode: new_string += alphabet_string[num_list[i]]
RECURSIVE DecodeLoop(_, _, _, _)
DecodeLoop(alphabet_string, num_list, i, new_string) ==
    IF i > Len(num_list) THEN [status |-> OK, nums |-> <<>>, text |-> new_string]
    ELSE LET c == StrGetItem(alphabet_string, num_list[i])
         IN IF ~c.ok THEN CoderRaise(IndexOutOfRange)
            ELSE DecodeLoop(alphabet_string, num_list, i + 1, Append(new_string, c.char))

\* CodeForAlphabet.decode
decode(self, num_list) ==
    IF self.codeword_length # 1 THEN CoderRaise(NotImplemented)
    ELSE DecodeLoop(self.alphabet_string, num_list, 1, <<>>)

(* the inputs drawn *)
Letters == {"A", "B"}
ExampleAlphabet == <<"A", "B", "C", "D", "E">>
ExampleText == <<"A", "A", "A", "B", "C", "E", "E">>
Alphabets == SeqUpTo(Letters, MaxAlpha) \cup {ExampleAlphabet}
WordLengths == {1, 2}
Texts == SeqUpTo(Letters \cup {"z"}, MaxText) \cup {ExampleText}
NumLists == SeqUpTo(-(MaxAlpha + 1) .. MaxAlpha, MaxNums)

NoCoder == [exists |-> FALSE, codeword_length |-> 0, alphabet_string |-> <<>>]
NoCoderCall == [op |-> "none", text_str |-> <<>>, num_list |-> <<>>,
                status |-> OK, nums |-> <<>>, text |-> <<>>]

CoderInit ==
    /\ coder = NoCoder
    /\ coder_call = NoCoderCall

\* C = CodeForAlphabet(alphabet_string, word_length), the first call made
NewCoder ==
    /\ coder_call.op = "none"
    /\ \E a \in Alphabets, w \in WordLengths :
        coder' = CodeForAlphabet_init(a, w)
    /\ coder_call' = [NoCoderCall EXCEPT !.op = "__init__"]
    /\ UNCHANGED hill_vars

\* C.encode(text_str), the call that follows the construction (the coder has
\* no state that an earlier call could have changed)
Encode ==
    /\ coder.exists
    /\ coder_call.op = "__init__"
    /\ \E t \in Texts :
        LET r == encode(coder, t)
        IN coder_call' = [op |-> "encode", text_str |-> t, num_list |-> <<>>,
                          status |-> r.status, nums |-> r.nums, text |-> r.text]
    /\ UNCHANGED coder
    /\ UNCHANGED hill_vars

\* C.decode(num_list), the call that follows the construction
Decode ==
    /\ coder.exists
    /\ coder_call.op = "__init__"
    /\ \E l \in NumLists :
        LET r == decode(coder, l)
        IN coder_call' = [op |-> "decode", text_str |-> <<>>, num_list |-> l,
                          status |-> r.status, nums |-> r.nums, text |-> r.text]
    /\ UNCHANGED coder
    /\ UNCHANGED hill_vars

---------------------------------------------------------------------------
(* Matrices over ZZ and over Z/NZ (the computer algebra system's part) *)

\* the n x n matrices with entries in S
SquareMatrices(n, S) == [1..n -> [1..n -> S]]

RECURSIVE SumTo(_, _)
\* f[1] + ... + f[n]
SumTo(f, n) == IF n = 0 THEN 0 ELSE SumTo(f, n - 1) + f[n]

\* M without row i and column j
Minor(M, i, j) ==
    [r \in 1..(Len(M) - 1) |->
        [c \in 1..(Len(M) - 1) |->
            M[IF r < i THEN r ELSE r + 1][IF c < j THEN c ELSE c + 1]]]

Sign(k) == IF k % 2 = 0 THEN 1 ELSE -1

RECURSIVE Det(_)
\* the determinant, expanded along the first row
Det(M) ==
    IF Len(M) = 0 THEN 1
    ELSE SumTo([j \in 1..Len(M) |-> Sign(j + 1) * M[1][j] * Det(Minor(M, 1, j))],
               Len(M))

\* the entries of M reduced to their canonical representatives in 0 .. N-1
ReduceMod(M, N) == [i \in 1..Len(M) |-> [j \in 1..Len(M) |-> M[i][j] % N]]

\* arg1.base_extend(IntegerModRing(N)) of a matrix over ZZ: a new matrix
base_extend(rows, N) == ReduceMod(rows, N)

\* the product of two n x n matrices over Z/NZ
MatMul(A, B, N) ==
    [i \in 1..Len(A) |->
        [j \in 1..Len(A) |->
            SumTo([k \in 1..Len(A) |-> A[i][k] * B[k][j]], Len(A)) % N]]

IdentityMatrix(n) == [i \in 1..n |-> [j \in 1..n |-> IF i = j THEN 1 ELSE 0]]

\* an inverse that takes the cofactors without transposing them
InverseUntransposed(M, N) ==
    LET d == Det(M) % N
    IN IF \E u \in 0..(N - 1) : (d * u) % N = 1
         THEN LET u == CHOOSE u \in 0..(N - 1) : (d * u) % N = 1
              IN [bound |-> TRUE,
                  value |-> [i \in 1..Len(M) |->
                               [j \in 1..Len(M) |->
                                  (u * Sign(i + j) * Det(Minor(M, i, j))) % N]]]
         ELSE [bound |-> FALSE, value |-> <<>>]

\* mod_matrix.inverse() over Z/NZ, taken to do what it is documented to do:
\* it returns det(M)^-1 times the adjugate when det(M) is a unit mod N;
\* otherwise it raises, and the local it was to be assigned to stays unbound
inverse(M, N) ==
    LET d == Det(M) % N
    IN IF \E u \in 0..(N - 1) : (d * u) % N = 1
         THEN LET u == CHOOSE u \in 0..(N - 1) : (d * u) % N = 1
              IN [bound |-> TRUE,
                  value |-> [i \in 1..Len(M) |->
                               [j \in 1..Len(M) |->
                                  (u * Sign(i + j) * Det(Minor(M, j, i))) % N]]]
         ELSE [bound |-> FALSE, value |-> <<>>]

\* vector(PT_word) * A, the row vector times the matrix
VecMatLift(A, PT_word, N) ==
    [i \in 1..Len(A) |->
        SumTo([j \in 1..Len(A) |-> A[j][i] * PT_word[j]], Len(A)) % N]

\* A * vector(PT_word) over Z/NZ, each entry lifted to 0 .. N-1
MatVecLift(A, PT_word, N) ==
    [i \in 1..Len(A) |->
        SumTo([j \in 1..Len(A) |-> A[i][j] * PT_word[j]], Len(A)) % N]

---------------------------------------------------------------------------
(* class HillCipher *)

NoEngine == [built |-> FALSE, encryption_matrix |-> 0, decryption_matrix |-> 0,
             modulus |-> 0]
EmptyHeap == <<<<>>, <<>>, <<>>>>
NotHeld == [ref |-> 0, writes |-> 0]

\* the except clause of __init__: raise RuntimeError, "...", mod_matrix_inv
\* evaluates its three expressions before it raises anything
ExceptClause(mod_matrix_inv) ==
    IF ~mod_matrix_inv.bound THEN UnboundLocal ELSE BadTraceback

\* __init__ storing the keys the same way whatever pass_decryption_key is
HillCipher_init_unswapped(arg1, arg2, pass_decryption_key) ==
    IF arg2 = <<>> /\ arg1.ring = 0
      THEN [status |-> NoModulus, engine |-> NoEngine, heap |-> EmptyHeap]
    ELSE
      LET N == IF arg2 = <<>> THEN arg1.ring ELSE arg2[1]
          mod_matrix == IF arg2 = <<>> THEN arg1.rows ELSE base_extend(arg1.rows, N)
          mod_matrix_inv == inverse(mod_matrix, N)
      IN IF ~mod_matrix_inv.bound
           THEN [status |-> ExceptClause(mod_matrix_inv), engine |-> NoEngine,
                 heap |-> EmptyHeap]
         ELSE [status |-> OK,
               engine |-> [built |-> TRUE, encryption_matrix |-> 1,
                           decryption_matrix |-> 2, modulus |-> N],
               heap |-> <<mod_matrix, mod_matrix_inv.value, <<>>>>]

\* HillCipher.__init__(arg1, arg2, pass_decryption_key): arg1 is a matrix (its
\* rows) over the ring of characteristic arg1.ring (0: ZZ), arg2 is <<>> for
\* None and <<N>> for a modulus. mod_matrix is object 1 and mod_matrix_inv
\* object 2 of the heap. (Without a modulus mod_matrix is arg1 itself, the
\* caller's object; the caller of this model makes no use of arg1 after the
\* call.)
HillCipher_init(arg1, arg2, pass_decryption_key) ==
    IF arg2 = <<>> /\ arg1.ring = 0
      THEN [status |-> NoModulus, engine |-> NoEngine, heap |-> EmptyHeap]
    ELSE
      LET N == IF arg2 = <<>> THEN arg1.ring ELSE arg2[1]
          mod_matrix == IF arg2 = <<>> THEN arg1.rows ELSE base_extend(arg1.rows, N)
          mod_matrix_inv == inverse(mod_matrix, N)
      IN IF ~mod_matrix_inv.bound
           THEN [status |-> ExceptClause(mod_matrix_inv), engine |-> NoEngine,
                 heap |-> EmptyHeap]
         ELSE [status |-> OK,
               engine |-> IF pass_decryption_key = FALSE
                            THEN [built |-> TRUE, encryption_matrix |-> 1,
                                  decryption_matrix |-> 2, modulus |-> N]
                            ELSE [built |-> TRUE, encryption_matrix |-> 2,
                                  decryption_matrix |-> 1, modulus |-> N],
               heap |-> <<mod_matrix, mod_matrix_inv.value, <<>>>>]

\* HillCipher.block_size
block_size(self, h) == Len(h[self.encryption_matrix])

\* HillCipher.modulus
modulus(self) == self.modulus

\* a copy that is the object itself
ShallowReturn(h, id) == [heap |-> h, ref |-> id]

\* deepcopy(matrix): a new object (object 3, the one the caller gets) with the
\* entries of object id
deepcopy(h, id) == [heap |-> [h EXCEPT ![3] = h[id]], ref |-> 3]

\* HillCipher.encryption_key
encryption_key(self, h) == deepcopy(h, self.encryption_matrix)

\* HillCipher.decryption_key
decryption_key(self, h) == deepcopy(h, self.decryption_matrix)

HillRaise(e, list) == [status |-> e, out |-> <<>>, list_after |-> list]

\* the loop of __apply_Hill_matrix__ from word_index (one-based here) on;
\* PT_word is a slice, a list of its own, so the padding is added to it and
\* never to plaintext_num_list
RECURSIVE ApplyLoop(_, _, _, _, _, _)
ApplyLoop(A, N, plaintext_num_list, padding_char, word_index, CT_num_list) ==
    LET n == Len(A) IN
    IF word_index > Len(plaintext_num_list)
      THEN [status |-> OK, out |-> CT_num_list, list_after |-> plaintext_num_list]
    ELSE
      LET PT_word == SubSeq(plaintext_num_list, word_index,
                            Min(word_index + n - 1, Len(plaintext_num_list)))
      IN IF Len(PT_word) # n /\ Len(padding_char) # 1
           THEN HillRaise(PaddingRequired, plaintext_num_list)
         ELSE
           LET padded == IF Len(PT_word) # n
                           THEN PT_word \o [k \in 1..(n - Len(PT_word)) |-> padding_char[1]]
                           ELSE PT_word
           IN ApplyLoop(A, N, plaintext_num_list, padding_char, word_index + n,
                        CT_num_list \o MatVecLift(A, padded, N))

\* HillCipher.__apply_Hill_matrix__
apply_Hill_matrix(self, h, key_matrix, plaintext_num_list, padding_char) ==
    ApplyLoop(ReduceMod(h[key_matrix], self.modulus), self.modulus,
              plaintext_num_list, padding_char, 1, <<>>)

\* encrypt handing a padding of its own on
EncryptDefaultPadding(self, h, plaintext_num_list, padding_char) ==
    apply_Hill_matrix(self, h, self.encryption_matrix, plaintext_num_list, <<0>>)

\* HillCipher.encrypt: hands "" on as the padding, whatever padding_char is
encrypt(self, h, plaintext_num_list, padding_char) ==
    apply_Hill_matrix(self, h, self.encryption_matrix, plaintext_num_list, <<>>)

\* HillCipher.decrypt: hands "" on as the padding, whatever padding_char is
decrypt(self, h, ciphertext_num_list, padding_char) ==
    apply_Hill_matrix(self, h, self.decryption_matrix, ciphertext_num_list, <<>>)

(* the inputs drawn *)
BlockSizes == {1, 2}
Moduli == 2..MaxMod
ExampleMatrix == <<<<1, 2>>, <<3, 4>>>>
IntegerMatrices ==
    UNION {SquareMatrices(n, 0..MaxEntry) : n \in BlockSizes} \cup {ExampleMatrix}
\* matrices over ZZ (ring 0) and over Z/NZ (ring N)
MatrixArgs ==
    {[ring |-> 0, rows |-> M] : M \in IntegerMatrices}
    \cup UNION {{[ring |-> N, rows |-> M] : M \in SquareMatrices(n, 0..(N - 1))} :
                <<n, N>> \in BlockSizes \X Moduli}
\* the (arg1, arg2) drawn: a matrix over ZZ with a modulus or with None, a
\* matrix over Z/NZ with None
KeyArgs ==
    {<<arg1, arg2>> \in MatrixArgs \X ({<<>>} \cup {<<N>> : N \in Moduli}) :
        arg1.ring = 0 \/ arg2 = <<>>}
\* of them, the matrices over Z/NZ, the docstring's matrix and a matrix over
\* ZZ without a modulus
FewKeyArgs ==
    {a \in KeyArgs : a[1].ring # 0 \/ a[1].rows = ExampleMatrix}
PaddingChars == {<<>>, <<0>>}
\* number lists for an engine of modulus N: its residues, and -1 outside them
NumberLists(N) == SeqUpTo(-1..(N - 1), MaxLen)
FewNumberLists == {<<1>>, <<0, 1>>}

NoHillCall ==
    [op |-> "none", arg1 |-> [ring |-> 0, rows |-> <<>>], arg2 |-> <<>>,
     pass_decryption_key |-> FALSE, list |-> <<>>, padding_char |-> <<>>,
     status |-> OK, out |-> <<>>, list_after |-> <<>>, value |-> 0]

HillInit ==
    /\ engine = NoEngine
    /\ heap = EmptyHeap
    /\ held = NotHeld
    /\ hill_call = NoHillCall

\* H = HillCipher(arg1, arg2, pass_decryption_key), the first call made
Construct(args) ==
    /\ hill_call.op = "none"
    /\ \E a \in args, flag \in BOOLEAN :
        LET r == HillCipher_init(a[1], a[2], flag)
        IN /\ engine' = r.engine
           /\ heap' = r.heap
           /\ held' = NotHeld
           /\ hill_call' = [NoHillCall EXCEPT !.op = "__init__", !.arg1 = a[1],
                                              !.arg2 = a[2],
                                              !.pass_decryption_key = flag,
                                              !.status = r.status]
    /\ UNCHANGED coder_vars

\* H.encrypt(list, padding_char)
Encrypt(lists) ==
    /\ engine.built
    /\ \E list \in lists, padding_char \in PaddingChars :
        LET r == encrypt(engine, heap, list, padding_char)
        IN hill_call' = [NoHillCall EXCEPT !.op = "encrypt", !.list = list,
                                           !.padding_char = padding_char,
                                           !.status = r.status, !.out = r.out,
                                           !.list_after = r.list_after]
    /\ UNCHANGED <<engine, heap, held>>
    /\ UNCHANGED coder_vars

\* H.decrypt(list, padding_char)
Decrypt(lists) ==
    /\ engine.built
    /\ \E list \in lists, padding_char \in PaddingChars :
        LET r == decrypt(engine, heap, list, padding_char)
        IN hill_call' = [NoHillCall EXCEPT !.op = "decrypt", !.list = list,
                                           !.padding_char = padding_char,
                                           !.status = r.status, !.out = r.out,
                                           !.list_after = r.list_after]
    /\ UNCHANGED <<engine, heap, held>>
    /\ UNCHANGED coder_vars

\* H.block_size()
BlockSize ==
    /\ engine.built
    /\ hill_call' = [NoHillCall EXCEPT !.op = "block_size",
                                       !.value = block_size(engine, heap)]
    /\ UNCHANGED <<engine, heap, held>>
    /\ UNCHANGED coder_vars

\* H.modulus()
Modulus ==
    /\ engine.built
    /\ hill_call' = [NoHillCall EXCEPT !.op = "modulus", !.value = modulus(engine)]
    /\ UNCHANGED <<engine, heap, held>>
    /\ UNCHANGED coder_vars

\* K = H.encryption_key()
EncryptionKey ==
    /\ engine.built
    /\ LET r == encryption_key(engine, heap)
       IN /\ heap' = r.heap
          /\ held' = [ref |-> r.ref, writes |-> 0]
    /\ hill_call' = [NoHillCall EXCEPT !.op = "encryption_key"]
    /\ UNCHANGED engine
    /\ UNCHANGED coder_vars

\* K = H.decryption_key()
DecryptionKey ==
    /\ engine.built
    /\ LET r == decryption_key(engine, heap)
       IN /\ heap' = r.heap
          /\ held' = [ref |-> r.ref, writes |-> 0]
    /\ hill_call' = [NoHillCall EXCEPT !.op = "decryption_key"]
    /\ UNCHANGED engine
    /\ UNCHANGED coder_vars

\* K[i, j] += 1: the caller writes into the matrix an accessor returned
WriteReturned ==
    /\ held.ref # 0
    /\ held.writes < MaxWrites
    /\ \E i \in 1..Len(heap[held.ref]), j \in 1..Len(heap[held.ref]) :
        heap' = [heap EXCEPT ![held.ref][i][j] = (@ + 1) % engine.modulus]
    /\ held' = [held EXCEPT !.writes = @ + 1]
    /\ hill_call' = [NoHillCall EXCEPT !.op = "write"]
    /\ UNCHANGED engine
    /\ UNCHANGED coder_vars

---------------------------------------------------------------------------
(* Specifications *)

Init == CoderInit /\ HillInit

\* H.encrypt(list, padding_char) as the call that follows the construction
EncryptOnce ==
    /\ hill_call.op = "__init__"
    /\ Encrypt(NumberLists(engine.modulus))

\* H.decrypt(list, padding_char) as the call that follows the construction
DecryptOnce ==
    /\ hill_call.op = "__init__"
    /\ Decrypt(NumberLists(engine.modulus))

\* an engine and one call of encrypt or decrypt on it
Next ==
    \/ Construct(FewKeyArgs)
    \/ EncryptOnce
    \/ DecryptOnce
Spec == Init /\ [][Next]_vars

\* an engine and its keys: construction from every argument drawn, then calls
\* in any order and the caller's writes into the matrices it got
NextKeys ==
    \/ Construct(KeyArgs)
    \/ Encrypt(FewNumberLists)
    \/ Decrypt(FewNumberLists)
    \/ BlockSize
    \/ Modulus
    \/ EncryptionKey
    \/ DecryptionKey
    \/ WriteReturned
SpecKeys == Init /\ [][NextKeys]_vars

\* the alphabet coder
NextCoder ==
    \/ NewCoder
    \/ Encode
    \/ Decode
SpecCoder == Init /\ [][NextCoder]_vars

---------------------------------------------------------------------------
(* Properties *)

\* the latest call is encrypt or decrypt
DataCall == hill_call.op \in {"encrypt", "decrypt"}
\* the key matrix the latest encrypt or decrypt call used
ActiveKey ==
    heap[IF hill_call.op = "encrypt" THEN engine.encryption_matrix
                                     ELSE engine.decryption_matrix]
\* the engine's block size n
EngineBlockSize == Len(heap[engine.encryption_matrix])
\* every entry of list is a residue 0 .. N-1
InRange(list, N) == \A k \in 1..Len(list) : list[k] \in 0..(N - 1)

RECURSIVE GCD(_, _)
GCD(a, b) == IF b = 0 THEN a ELSE GCD(b, a % b)

C2_PaddedCallSucceeds ==
    (DataCall /\ Len(hill_call.padding_char) = 1
              /\ Len(hill_call.list) % EngineBlockSize # 0)
    => /\ hill_call.status = OK
       /\ Len(hill_call.out)
            = Len(hill_call.list)
                + (EngineBlockSize - (Len(hill_call.list) % EngineBlockSize))

\* C3: without a padding value, a call on a list whose length is no multiple
\* of the block size fails with PaddingRequired and returns nothing; a call
\* on a list whose length is a multiple of it (0 too) never raises
\* PaddingRequired.
C3_PaddingRequired ==
    DataCall =>
      /\ (hill_call.padding_char = <<>> /\ Len(hill_call.list) % EngineBlockSize # 0)
           => (hill_call.status = PaddingRequired /\ hill_call.out = <<>>)
      /\ Len(hill_call.list) % EngineBlockSize = 0
           => hill_call.status # PaddingRequired

\* C3 witness: a 2 x 2 engine was given three numbers and no padding, a full
\* block and a short one, and the call failed
C3_Witness ==
    /\ hill_call.op = "encrypt" /\ hill_call.padding_char = <<>>
    /\ EngineBlockSize = 2 /\ Len(hill_call.list) = 3
    /\ hill_call.status = PaddingRequired

\* C4 as claimed: constructing from a matrix whose determinant is no unit
\* mod N fails with NotInvertible, and leaves no engine.
C4_SingularRejected ==
    (hill_call.op = "__init__"
       /\ (hill_call.arg2 # <<>> \/ hill_call.arg1.ring # 0)
       /\ LET N == IF hill_call.arg2 = <<>> THEN hill_call.arg1.ring
                                            ELSE hill_call.arg2[1]
          IN GCD(Det(hill_call.arg1.rows) % N, N) # 1)
    => (hill_call.status = NotInvertible /\ ~engine.built)

C6_DecodeRejectsOutOfRange ==
    (coder_call.op = "decode" /\ coder.codeword_length = 1
       /\ \E k \in 1..Len(coder_call.num_list) :
             coder_call.num_list[k] \notin 0..(Len(coder.alphabet_string) - 1))
    => (coder_call.status = IndexOutOfRange /\ coder_call.text = <<>>)

\* C7 as claimed: the construction fails for a word length other than 1, so
\* that no coder of such a word length exists.
C7_NoCoderOfOtherWordLength ==
    coder.exists => coder.codeword_length = 1

\* C7 as amended: the construction succeeds for a word length other than 1,
\* and every encode and decode call on such a coder fails with NotImplemented
\* and returns nothing.
C7_CallsOnOtherWordLengthFail ==
    (coder.exists /\ coder.codeword_length # 1
       /\ coder_call.op \in {"encode", "decode"})
    => /\ coder_call.status = NotImplemented
       /\ coder_call.nums = <<>> /\ coder_call.text = <<>>

\* C7 witness: encode was called with a text of the alphabet on a coder of
\* word length 2
C7_Witness ==
    /\ coder.exists /\ coder.codeword_length = 2
    /\ coder_call.op = "encode" /\ coder_call.text_str # <<>>
    /\ \A k \in 1..Len(coder_call.text_str) :
          \E p \in 1..Len(coder.alphabet_string) :
             coder.alphabet_string[p] = coder_call.text_str[k]

\* C8: for a coder of word length 1 and a text of characters of its alphabet,
\* encode gives as many numbers as the text has characters, each the
\* zero-based position of its character in the alphabet, decode gives the text
\* back from them, also with an alphabet of repeated characters, and "AAABCEE"
\* over "ABCDE" gives [0,0,0,1,2,4,4].
C8_CoderRoundTrip ==
    (coder_call.op = "encode" /\ coder.codeword_length = 1
       /\ \A k \in 1..Len(coder_call.text_str) :
             \E p \in 1..Len(coder.alphabet_string) :
                coder.alphabet_string[p] = coder_call.text_str[k])
    => /\ coder_call.status = OK
       /\ Len(coder_call.nums) = Len(coder_call.text_str)
       /\ \A k \in 1..Len(coder_call.text_str) :
             /\ coder_call.nums[k] \in 0..(Len(coder.alphabet_string) - 1)
             /\ coder.alphabet_string[coder_call.nums[k] + 1] = coder_call.text_str[k]
       /\ LET d == decode(coder, coder_call.nums)
          IN d.status = OK /\ d.text = coder_call.text_str
       /\ (coder.alphabet_string = ExampleAlphabet /\ coder_call.text_str = ExampleText)
            => coder_call.nums = <<0, 0, 0, 1, 2, 4, 4>>

\* C8 witness: a text of two different characters was encoded over an
\* alphabet that holds one of them twice
C8_Witness ==
    /\ coder_call.op = "encode" /\ coder_call.status = OK
    /\ coder.codeword_length = 1
    /\ Len(coder.alphabet_string) = 3
    /\ coder.alphabet_string[1] = coder.alphabet_string[3]
    /\ coder.alphabet_string[1] # coder.alphabet_string[2]
    /\ Len(coder_call.text_str) = 3
    /\ coder_call.text_str[1] # coder_call.text_str[2]

\* C9: for a list whose length is a multiple of the block size n (the empty
\* list too), the output of encrypt is as long as the list, its k-th block is
\* the encryption matrix times the k-th block of the list mod N, the blocks in
\* the order of the list, every entry in 0 .. N-1; decrypt likewise with the
\* decryption matrix.
C9_BlockTransform ==
    (DataCall /\ Len(hill_call.list) % EngineBlockSize = 0)
    => /\ hill_call.status = OK
       /\ Len(hill_call.out) = Len(hill_call.list)
       /\ \A b \in 0..(Len(hill_call.list) \div EngineBlockSize - 1) :
            \A i \in 1..EngineBlockSize :
               LET n == EngineBlockSize
                   c == hill_call.out[b * n + i]
                   row == SumTo([j \in 1..n |-> ActiveKey[i][j] * hill_call.list[b * n + j]], n)
               IN c \in 0..(engine.modulus - 1) /\ (row - c) % engine.modulus = 0

\* C9 witness: two blocks that differ, one of them with a number that is no
\* residue, were decrypted
C9_Witness ==
    /\ hill_call.op = "decrypt" /\ hill_call.status = OK
    /\ Len(hill_call.list) = 2 * EngineBlockSize
    /\ hill_call.out[1] # hill_call.out[EngineBlockSize + 1]
    /\ ~InRange(hill_call.list, engine.modulus)

\* C10: once the engine is built, no call (encrypt, decrypt, block_size,
\* modulus, encryption_key, decryption_key, failing or not) and no write of
\* the caller into a matrix an accessor returned changes the engine's
\* matrices or its modulus, and encrypt and decrypt leave the list they are
\* given as it was.
C10_EngineUnchanged ==
    [][engine.built =>
         /\ engine' = engine
         /\ heap'[engine.encryption_matrix] = heap[engine.encryption_matrix]
         /\ heap'[engine.decryption_matrix] = heap[engine.decryption_matrix]
         /\ hill_call'.op \in {"encrypt", "decrypt"}
              => hill_call'.list_after = hill_call'.list]_vars

\* C10 witness: the caller has written into the matrix an accessor returned,
\* which now differs from both keys
C10_Witness ==
    /\ engine.built /\ hill_call.op = "write"
    /\ held.ref # 0 /\ held.writes > 0
    /\ heap[held.ref] # heap[engine.encryption_matrix]
    /\ heap[held.ref] # heap[engine.decryption_matrix]

===========================================================================
